---- MODULE Spec2Model ----
(***************************************************************************)
(* The proxy-toggle controller of the PQC proxy browser extension: the     *)
(* background service worker (src/unnamed/part_000) and the popup          *)
(* component that drives it (ProxyToggle.jsx).                             *)
(*                                                                         *)
(* The worker is single threaded and event driven.  Every handler runs to  *)
(* its next asynchronous boundary in one step; the pending operations are  *)
(* kept in the queues of the platform service that executes them:          *)
(*   storageQ  chrome.storage.sync get/set calls, served in issue order    *)
(*   engineQ   declarativeNetRequest.updateEnabledRulesets calls, served   *)
(*             in issue order                                              *)
(* A platform operation settles with success or with failure; which one    *)
(* is not decided by the program, so both are possible at every settle.    *)
(* The settling of an operation and the callback or continuation that      *)
(* waits for it are one step: nothing else runs in the worker in between.  *)
(***************************************************************************)
EXTENDS Naturals, Sequences, FiniteSets

VARIABLES
  storage,       \* chrome.storage.sync: <<>> when proxyEnabled was never written, else <<b>>
  engine,        \* TRUE iff rule set 'proxy_rules' is enabled in declarativeNetRequest
  badgeText,     \* chrome.action badge text
  badgeColor,    \* chrome.action badge background colour ("" = never set)
  storageQ,      \* pending chrome.storage.sync operations (FIFO)
  engineQ,       \* pending updateEnabledRulesets calls (FIFO)
  req,           \* the messages delivered to runtime.onMessage of this process, in order of arrival
  popup,         \* React state of the ProxyToggle component
  timers,        \* ids of toggle requests whose 5000 ms popup timer is armed
  pendingEvent,  \* lifecycle event not yet dispatched: "installed", "startup" or "none"
  startupPc,     \* position of the onStartup handler: none, read, engine, done, failed
  enableInvoked, \* history: enable of 'proxy_rules' was invoked since the last process start
  startTrue      \* history: the last process start was a startup with persisted proxyEnabled = true

vars == <<storage, engine, badgeText, badgeColor, storageQ, engineQ, req, popup,
          timers, pendingEvent, startupPc, enableInvoked, startTrue>>

----------------------------------------------------------------------------
(* Bounds of the model *)

\* messages followed per process, the probe of the popup not counted
MaxMsgs == 2

----------------------------------------------------------------------------
(* Values *)

\* the two failures of the rule engine the controller has to handle
EngineErrors == {"PermissionDenied", "UnknownRuleset"}

\* outcomes of fetch(`${PROXY_SERVER}/pqc-info`): an HTTP status, or 0 for a rejected fetch
HttpStatuses == {200, 299, 300}
NetworkError == 0
FetchOutcomes == HttpStatuses \cup {NetworkError}

GREEN == "#10B981"
RED == "#EF4444"

\* result.proxyEnabled || false, on the record read from storage
OrFalse(result) == IF result = <<>> THEN FALSE ELSE result[1]

\* ResponseOk with the upper end of the 2xx range left out
ResponseOkBelow(status) == status >= 200 /\ status < 299

\* response.ok of the fetch API
ResponseOk(status) == status >= 200 /\ status <= 299

----------------------------------------------------------------------------
(* Requests *)

Ids == 1..Len(req)

IsToggle(i) == req[i].action = "toggleProxy"

\* a toggle whose storage write or engine call has not settled yet
InFlight(i) == IsToggle(i) /\ req[i].pc \in {"set", "engine"}

\* the messages received so far that count against MaxMsgs
Msgs == Cardinality({i \in Ids : req[i].action # "checkServerStatus"})

\* A message as the listener takes it up.  cb: the popup's callback waits for the
\* response.  History kept with the request: late (another toggle was in flight when
\* it arrived), overlap (it shared some of its time in flight with another toggle),
\* writes (its storage writes that landed), calls and lcalls (the rule engine calls
\* issued for it by its own handler and by the storage.onChanged listener), thrown
\* (the message of the error its engine call rejected with, "" if none).
NewReq(action, enabled, pc, cb, late) ==
  [action |-> action, enabled |-> enabled, pc |-> pc, resp |-> <<>>,
   cb |-> cb, late |-> late, overlap |-> late, writes |-> 0, calls |-> 0,
   lcalls |-> 0, thrown |-> ""]

\* sendResponse(r) for request i, then the request is finished
Respond(rq, i, r) ==
  [rq EXCEPT ![i].resp = Append(@, r), ![i].pc = "done"]

----------------------------------------------------------------------------
(* updateProxyRules *)

\* the call of updateEnabledRulesets that updateProxyRules(enabled) issues and awaits;
\* by: the caller (toggle, listener, startup); id: the toggle request it stems from, or 0
updateEnabledRulesets(enabled, by, id) == [enabled |-> enabled, by |-> by, id |-> id]

\* the rule set status after the awaited call settled
EngineAfter(enabled, ok, old) == IF ok THEN enabled ELSE old

\* setBadgeText of updateProxyRules: "ON" / "" after the call, "ERR" in the catch block
BadgeTextAfter(enabled, ok) ==
  IF ~ok THEN "ERR" ELSE IF enabled THEN "ON" ELSE ""

\* setBadgeBackgroundColor: green with "ON", red with "ERR", untouched on disable
BadgeColorAfter(enabled, ok, old) ==
  IF ~ok THEN RED ELSE IF enabled THEN GREEN ELSE old

----------------------------------------------------------------------------
(* storage.onChanged listener *)

\* OnChangedCalls of a listener that is run for every completed write
OnChangedCallsAlways(old, new, id) ==
  <<updateEnabledRulesets(OrFalse(new), "listener", id)>>

\* the calls the listener issues for one completed write: updateProxyRules(newValue)
\* when the stored proxyEnabled changed (the platform reports only changed keys)
OnChangedCalls(old, new, id) ==
  IF old # new THEN <<updateEnabledRulesets(OrFalse(new), "listener", id)>> ELSE <<>>

----------------------------------------------------------------------------
(* Replies of the onMessage listener *)

\* StatusReply that reports whether the flag was ever written
StatusReplyWritten(result) == [enabled |-> result # <<>>]

StatusReply(result) == [enabled |-> OrFalse(result)]

\* ToggleReply with the requested value left out of the success reply
ToggleReplyBare(enabled, ok, err) ==
  IF ok THEN [success |-> TRUE]
        ELSE [success |-> FALSE, error |-> err.message]

\* err is the caught error object; the reply carries error.message
ToggleReply(enabled, ok, err) ==
  IF ok THEN [success |-> TRUE, enabled |-> enabled]
        ELSE [success |-> FALSE, error |-> err.message]

HealthReply(outcome) ==
  IF outcome = NetworkError
    THEN [online |-> FALSE, error |-> "Failed to fetch"]
    ELSE [online |-> ResponseOk(outcome), status |-> outcome]

----------------------------------------------------------------------------
(* Popup (ProxyToggle.jsx) *)

\* useState initial values of the component
PopupMounted ==
  [open |-> TRUE, isEnabled |-> FALSE, isLoading |-> TRUE, serverStatus |-> "unknown"]

\* no popup is shown (it lives as long as its process, once opened)
PopupClosed ==
  [open |-> FALSE, isEnabled |-> FALSE, isLoading |-> FALSE, serverStatus |-> "unknown"]

\* disabled={isLoading || serverStatus === 'offline'} on both toggle controls
ControlsEnabled(p) == p.open /\ ~p.isLoading /\ p.serverStatus # "offline"

\* the sendMessage callback of toggleProxy, run with the controller's response r
ToggleCallback(p, newState, r) ==
  [p EXCEPT !.isEnabled = IF r.success THEN newState ELSE @, !.isLoading = FALSE]

\* the sendMessage callback of checkServerStatus
HealthCallback(p, r) ==
  [p EXCEPT !.serverStatus = IF r.online THEN "online" ELSE "offline"]

----------------------------------------------------------------------------
(* Initial state: the extension has just been installed; onInstalled is due *)

Init ==
  /\ storage = <<>>
  /\ engine \in BOOLEAN
  /\ badgeText = ""
  /\ badgeColor = ""
  /\ storageQ = <<>>
  /\ engineQ = <<>>
  /\ req = <<>>
  /\ popup = PopupClosed
  /\ timers = {}
  /\ pendingEvent = "installed"
  /\ startupPc = "none"
  /\ enableInvoked = FALSE
  /\ startTrue = FALSE

----------------------------------------------------------------------------
(* Lifecycle *)

\* chrome.runtime.onInstalled listener
OnInstalled ==
  /\ pendingEvent = "installed"
  /\ pendingEvent' = "none"
  /\ storageQ' = Append(storageQ, [op |-> "set", by |-> "install", id |-> 0, val |-> FALSE])
  /\ badgeText' = ""
  /\ UNCHANGED <<storage, engine, badgeColor, engineQ, req, popup, timers,
                 startupPc, enableInvoked, startTrue>>

\* chrome.runtime.onStartup listener, up to its await of storage.sync.get
OnStartup ==
  /\ pendingEvent = "startup"
  /\ pendingEvent' = "none"
  /\ storageQ' = Append(storageQ, [op |-> "get", by |-> "startup", id |-> 0, val |-> FALSE])
  /\ startupPc' = "read"
  /\ UNCHANGED <<storage, engine, badgeText, badgeColor, engineQ, req, popup, timers,
                 enableInvoked, startTrue>>

\* The process ends and a new one starts (browser restart: kind "startup"; extension
\* or browser update: kind "installed").  Handlers of the old process never resume:
\* what they were waiting for is abandoned, their message exchanges and the popup
\* are gone.  The lifecycle event of the new process is due, and it is dispatched
\* before any message reaches the new process.
ProcessStart(kind) ==
  /\ pendingEvent = "none"
  /\ pendingEvent' = kind
  /\ storageQ' = <<>>
  /\ engineQ' = <<>>
  /\ req' = <<>>
  /\ popup' = PopupClosed
  /\ timers' = {}
  /\ startupPc' = "none"
  /\ enableInvoked' = FALSE
  /\ startTrue' = (kind = "startup" /\ OrFalse(storage))
  /\ UNCHANGED <<storage, engine, badgeText, badgeColor>>

----------------------------------------------------------------------------
(* Completion of storage operations *)

HeadIs(op, by) ==
  /\ storageQ # <<>>
  /\ Head(storageQ).op = op
  /\ Head(storageQ).by = by

\* some call of the sequence enables the rule set
Enables(calls) == \E k \in 1..Len(calls) : calls[k].enabled

\* the value stored after a set of v settled
Written(v, ok, old) == IF ok THEN <<v>> ELSE old

\* The set issued by onInstalled settles.  It has no callback; a change of the
\* stored value runs the storage.onChanged listener.
SetInstallDone(ok) ==
  /\ HeadIs("set", "install")
  /\ LET new == Written(FALSE, ok, storage)
         calls == OnChangedCalls(storage, new, 0)
     IN /\ storage' = new
        /\ engineQ' = engineQ \o calls
        /\ enableInvoked' = (enableInvoked \/ Enables(calls))
  /\ storageQ' = Tail(storageQ)
  /\ UNCHANGED <<engine, badgeText, badgeColor, req, popup, timers, pendingEvent,
                 startupPc, startTrue>>

\* The set issued by the toggleProxy handler settles: a change of the stored value
\* runs the storage.onChanged listener, and the callback of set runs in either case
\* (it does not look at runtime.lastError) up to the await in updateProxyRules.  The
\* platform fixes no order between the listener and the callback.
SetToggleDone(ok, listenerFirst) ==
  /\ HeadIs("set", "toggle")
  /\ LET i == Head(storageQ).id
         v == req[i].enabled
         new == Written(v, ok, storage)
         lcalls == OnChangedCalls(storage, new, i)
         own == <<updateEnabledRulesets(v, "toggle", i)>>
     IN /\ storage' = new
        /\ engineQ' = engineQ \o (IF listenerFirst THEN lcalls \o own ELSE own \o lcalls)
        /\ enableInvoked' = (enableInvoked \/ Enables(own \o lcalls))
        /\ req' = [req EXCEPT ![i].pc = "engine",
                              ![i].writes = @ + (IF ok THEN 1 ELSE 0),
                              ![i].calls = @ + Len(own),
                              ![i].lcalls = @ + Len(lcalls)]
  /\ storageQ' = Tail(storageQ)
  /\ UNCHANGED <<engine, badgeText, badgeColor, popup, timers, pendingEvent,
                 startupPc, startTrue>>

\* The get awaited by onStartup settles.  With a result the handler calls
\* updateProxyRules and ends without awaiting it; a rejected get ends the handler.
GetStartupDone(ok) ==
  /\ HeadIs("get", "startup")
  /\ IF ok
       THEN LET calls == <<updateEnabledRulesets(OrFalse(storage), "startup", 0)>>
            IN /\ engineQ' = engineQ \o calls
               /\ enableInvoked' = (enableInvoked \/ Enables(calls))
               /\ startupPc' = "engine"
       ELSE /\ startupPc' = "failed"
            /\ UNCHANGED <<engineQ, enableInvoked>>
  /\ storageQ' = Tail(storageQ)
  /\ UNCHANGED <<storage, engine, badgeText, badgeColor, req, popup, timers,
                 pendingEvent, startTrue>>

\* The get of the getProxyStatus handler settles and its callback runs.  A failed
\* get calls the callback without a result (runtime.lastError is set), and reading
\* result.proxyEnabled throws before sendResponse.
GetStatusDone(ok) ==
  /\ HeadIs("get", "status")
  /\ LET i == Head(storageQ).id
     IN req' = IF ok THEN Respond(req, i, StatusReply(storage))
                     ELSE [req EXCEPT ![i].pc = "threw"]
  /\ storageQ' = Tail(storageQ)
  /\ UNCHANGED <<storage, engine, badgeText, badgeColor, engineQ, popup, timers,
                 pendingEvent, startupPc, enableInvoked, startTrue>>

\* loadProxyState of the popup resumes after its await of storage.sync.get
loadProxyState(p, ok, result) ==
  [p EXCEPT !.isEnabled = IF ok THEN OrFalse(result) ELSE @, !.isLoading = FALSE]

GetPopupDone(ok) ==
  /\ HeadIs("get", "popup")
  /\ popup' = loadProxyState(popup, ok, storage)
  /\ storageQ' = Tail(storageQ)
  /\ UNCHANGED <<storage, engine, badgeText, badgeColor, engineQ, req, timers,
                 pendingEvent, startupPc, enableInvoked, startTrue>>

----------------------------------------------------------------------------
(* Completion of rule engine calls: updateProxyRules resumes after its await *)

\* ok: the call resolved; otherwise it rejected with an error whose message is e
EngineSettle(ok, e) ==
  /\ engineQ # <<>>
  /\ LET c == Head(engineQ)
         i == c.id
     IN /\ engine' = EngineAfter(c.enabled, ok, engine)
        /\ badgeText' = BadgeTextAfter(c.enabled, ok)
        /\ badgeColor' = BadgeColorAfter(c.enabled, ok, badgeColor)
        /\ IF c.by = "toggle"
             THEN LET r == ToggleReply(req[i].enabled, ok, [message |-> e])
                  IN /\ req' = [Respond(req, i, r) EXCEPT ![i].thrown = IF ok THEN "" ELSE e]
                     /\ popup' = IF req[i].cb THEN ToggleCallback(popup, req[i].enabled, r)
                                              ELSE popup
                     /\ timers' = IF req[i].cb THEN timers \ {i} ELSE timers
             ELSE UNCHANGED <<req, popup, timers>>
        /\ startupPc' = IF c.by = "startup" THEN "done" ELSE startupPc
  /\ engineQ' = Tail(engineQ)
  /\ UNCHANGED <<storage, storageQ, pendingEvent, enableInvoked, startTrue>>

EngineOk == EngineSettle(TRUE, "")

EngineFail == \E e \in EngineErrors : EngineSettle(FALSE, e)

----------------------------------------------------------------------------
(* Messages: the onMessage listener up to its first asynchronous call *)

\* getProxyStatus, sent by any client of the controller
RecvGetProxyStatus ==
  /\ pendingEvent = "none"
  /\ Msgs < MaxMsgs
  /\ req' = Append(req, NewReq("getProxyStatus", FALSE, "get", FALSE, FALSE))
  /\ storageQ' = Append(storageQ,
                        [op |-> "get", by |-> "status", id |-> Len(req) + 1, val |-> FALSE])
  /\ UNCHANGED <<storage, engine, badgeText, badgeColor, engineQ, popup, timers,
                 pendingEvent, startupPc, enableInvoked, startTrue>>

\* A message whose action is none of the three the listener tests for: no branch is
\* taken, the listener returns undefined without calling sendResponse, and the
\* platform closes the message port.
RecvUnknownAction ==
  /\ pendingEvent = "none"
  /\ Msgs < MaxMsgs
  /\ req' = Append(req, NewReq("unknownAction", FALSE, "ignored", FALSE, FALSE))
  /\ UNCHANGED <<storage, engine, badgeText, badgeColor, storageQ, engineQ, popup, timers,
                 pendingEvent, startupPc, enableInvoked, startTrue>>

\* The popup is opened: the component mounts and its effect runs loadProxyState
\* (a get on the shared storage) and checkServerStatus (a message whose handler
\* starts the fetch of the liveness endpoint).
PopupOpen ==
  /\ pendingEvent = "none"
  /\ ~popup.open
  /\ popup' = PopupMounted
  /\ storageQ' = Append(storageQ, [op |-> "get", by |-> "popup", id |-> 0, val |-> FALSE])
  /\ req' = Append(req, NewReq("checkServerStatus", FALSE, "fetch", TRUE, FALSE))
  /\ UNCHANGED <<storage, engine, badgeText, badgeColor, engineQ, timers,
                 pendingEvent, startupPc, enableInvoked, startTrue>>

\* toggleProxy with a handler that calls updateProxyRules at once, without waiting
\* for the callback of storage.sync.set
toggleProxyEager ==
  /\ ControlsEnabled(popup)
  /\ Msgs < MaxMsgs
  /\ LET id == Len(req) + 1
         newState == ~popup.isEnabled
         busy == \E j \in Ids : InFlight(j)
         marked == [j \in Ids |-> [req[j] EXCEPT !.overlap = @ \/ InFlight(j)]]
     IN /\ req' = Append(marked, NewReq("toggleProxy", newState, "set", TRUE, busy))
        /\ storageQ' = Append(storageQ,
                              [op |-> "set", by |-> "toggle", id |-> id, val |-> newState])
        /\ engineQ' = Append(engineQ, updateEnabledRulesets(newState, "toggle", id))
        /\ timers' = timers \cup {id}
  /\ popup' = [popup EXCEPT !.isLoading = TRUE]
  /\ UNCHANGED <<storage, engine, badgeText, badgeColor, pendingEvent,
                 startupPc, enableInvoked, startTrue>>

\* The user operates an enabled toggle control: toggleProxy of the popup arms the
\* 5000 ms timer and sends toggleProxy{enabled: !isEnabled}; the handler of the
\* controller issues storage.sync.set of the requested value.
toggleProxy ==
  /\ ControlsEnabled(popup)
  /\ Msgs < MaxMsgs
  /\ LET id == Len(req) + 1
         newState == ~popup.isEnabled
         busy == \E j \in Ids : InFlight(j)
         marked == [j \in Ids |-> [req[j] EXCEPT !.overlap = @ \/ InFlight(j)]]
     IN /\ req' = Append(marked, NewReq("toggleProxy", newState, "set", TRUE, busy))
        /\ storageQ' = Append(storageQ,
                              [op |-> "set", by |-> "toggle", id |-> id, val |-> newState])
        /\ timers' = timers \cup {id}
  /\ popup' = [popup EXCEPT !.isLoading = TRUE]
  /\ UNCHANGED <<storage, engine, badgeText, badgeColor, engineQ, pendingEvent,
                 startupPc, enableInvoked, startTrue>>

\* 5000 ms passed without a response to toggle request i
Timeout(i) ==
  /\ i \in timers
  /\ timers' = timers \ {i}
  /\ popup' = [popup EXCEPT !.isLoading = FALSE]
  /\ UNCHANGED <<storage, engine, badgeText, badgeColor, storageQ, engineQ, req,
                 pendingEvent, startupPc, enableInvoked, startTrue>>

\* The fetch of checkServerStatus request i settles with an HTTP response or rejects
FetchSettle(i, outcome) ==
  /\ req[i].pc = "fetch"
  /\ LET r == HealthReply(outcome)
     IN /\ req' = Respond(req, i, r)
        /\ popup' = IF req[i].cb THEN HealthCallback(popup, r) ELSE popup
  /\ UNCHANGED <<storage, engine, badgeText, badgeColor, storageQ, engineQ, timers,
                 pendingEvent, startupPc, enableInvoked, startTrue>>

----------------------------------------------------------------------------
(* Specification *)

Next ==
  \/ OnInstalled
  \/ OnStartup
  \/ \E kind \in {"startup", "installed"} : ProcessStart(kind)
  \/ \E ok \in BOOLEAN : SetInstallDone(ok)
  \/ \E ok \in BOOLEAN, listenerFirst \in BOOLEAN : SetToggleDone(ok, listenerFirst)
  \/ \E ok \in BOOLEAN : GetStartupDone(ok)
  \/ \E ok \in BOOLEAN : GetStatusDone(ok)
  \/ \E ok \in BOOLEAN : GetPopupDone(ok)
  \/ EngineOk
  \/ EngineFail
  \/ RecvGetProxyStatus
  \/ RecvUnknownAction
  \/ PopupOpen
  \/ toggleProxy
  \/ \E i \in timers : Timeout(i)
  \/ \E i \in Ids, outcome \in FetchOutcomes : FetchSettle(i, outcome)

Spec == Init /\ [][Next]_vars

\* The platform settles every operation it was given: the head of each queue is
\* served eventually.
StorageSettles ==
  \/ \E ok \in BOOLEAN : SetInstallDone(ok)
  \/ \E ok \in BOOLEAN, listenerFirst \in BOOLEAN : SetToggleDone(ok, listenerFirst)
  \/ \E ok \in BOOLEAN : GetStartupDone(ok)
  \/ \E ok \in BOOLEAN : GetStatusDone(ok)
  \/ \E ok \in BOOLEAN : GetPopupDone(ok)

FairSpec == Spec /\ WF_vars(StorageSettles) /\ WF_vars(EngineOk \/ EngineFail)

----------------------------------------------------------------------------
(* Vocabulary of the claims *)

\* nothing is pending anywhere in the controller
Quiet ==
  /\ storageQ = <<>>
  /\ engineQ = <<>>
  /\ pendingEvent = "none"
  /\ \A i \in Ids : req[i].pc \notin {"set", "engine", "get"}

Toggles == {i \in Ids : IsToggle(i)}

\* the toggle requests of this process came one after the other, each after the
\* response to the one before, with alternating values, and their writes landed
Sequential ==
  /\ \A i \in Toggles : ~req[i].overlap /\ (req[i].pc = "done" => req[i].writes = 1)
  /\ \A i, j \in Toggles :
       (i < j /\ ~\E k \in Toggles : i < k /\ k < j) => req[i].enabled # req[j].enabled

\* this step is a step of the running process, not the start of a new one
SameProcess == ~(pendingEvent = "none" /\ pendingEvent' # "none")

\* this step sends the response to request i
Answers(i) == SameProcess /\ req[i].pc # "done" /\ req'[i].pc = "done"

\* this step is the settling of a rule engine call
EngineStep == engineQ # <<>> /\ SameProcess /\ engineQ' = Tail(engineQ)

BadgeFor(v) == IF v THEN "ON" ELSE ""

----------------------------------------------------------------------------
(* C1: convergence (I2) *)

\* C1 as claimed: whenever nothing is in flight after toggles that were issued one
\* after the other with alternating values, the rule set is enabled exactly when the
\* persisted flag is true, whether the engine calls succeeded or failed.
C1_Convergence ==
  (Quiet /\ Toggles # {} /\ Sequential) => engine = OrFalse(storage)

----------------------------------------------------------------------------
(* C2: single transition in flight (I1) *)

\* C2 as claimed: a toggle request that arrives while an earlier toggle is in flight
\* is a no-op: no storage write and no rule engine call is made for it.
C2_LateToggleRejected ==
  \A i \in Toggles :
    req[i].late => req[i].writes = 0 /\ req[i].calls = 0 /\ req[i].lcalls = 0

----------------------------------------------------------------------------
(* C3: successful toggle *)

\* C3 as claimed: when the engine call of a toggle that shared no time in flight with
\* another toggle succeeds, the response is {success: true, enabled: v}, and when it
\* is sent the persisted flag is v and the badge text is "ON" for true, "" for false.
C3_SuccessfulToggle ==
  [][\A i \in Toggles :
       (Answers(i) /\ req'[i].thrown = "" /\ ~req'[i].overlap)
         => /\ req'[i].resp = <<[success |-> TRUE, enabled |-> req[i].enabled]>>
            /\ storage' = <<req[i].enabled>>
            /\ badgeText' = BadgeFor(req[i].enabled)]_vars

----------------------------------------------------------------------------
(* C4: failed toggle *)

\* the response to a toggleProxy{enabled: true} whose engine call rejected
FailedReplyOk(i) ==
  (Answers(i) /\ req'[i].thrown # "" /\ req[i].enabled)
    => /\ req'[i].resp = <<[success |-> FALSE, error |-> req'[i].thrown]>>
       /\ "enabled" \notin DOMAIN req'[i].resp[1]
       /\ badgeText' = "ERR"

\* C4 as claimed: a toggleProxy{enabled: true} whose engine call fails is answered
\* {success: false, error: <the error>} without an enabled field, the badge text is
\* "ERR" when the response is sent, and only an engine operation takes "ERR" away.
C4_ErrUntilEngineOperation ==
  [][/\ \A i \in Toggles : FailedReplyOk(i)
     /\ (badgeText = "ERR" /\ badgeText' # "ERR") => EngineStep]_vars

----------------------------------------------------------------------------
(* C5: no rollback on engine failure *)

\* C5 as claimed: when the response to a toggle whose engine call failed is sent, the
\* persisted flag is the requested value.
C5_FlagLeftAtRequested ==
  [][\A i \in Toggles :
       (Answers(i) /\ req'[i].thrown # "") => storage' = <<req[i].enabled>>]_vars

----------------------------------------------------------------------------
(* C6: startup reconciliation before status *)

\* C6 as claimed: after a startup with persisted proxyEnabled = true, no
\* getProxyStatus request is answered {enabled: true} unless the enabling of
\* 'proxy_rules' has been invoked since that start.
C6_EnableBeforeStatus ==
  (startTrue /\ \E i \in Ids : /\ req[i].action = "getProxyStatus"
                               /\ req[i].resp = <<[enabled |-> TRUE]>>)
    => enableInvoked

----------------------------------------------------------------------------
(* C7: startup reconciliation is not interleaved with toggles *)

\* C7 as claimed: while the startup handler has not finished (its read or the engine
\* call applying the value read is pending), no storage write has settled and no
\* engine call has been issued for a toggleProxy request.
C7_StartupBeforeToggles ==
  startupPc \in {"read", "engine"} => \A i \in Toggles : req[i].pc = "set"

----------------------------------------------------------------------------
(* C8: exactly one response per request *)

\* C8 as claimed: every getProxyStatus, toggleProxy and checkServerStatus request has
\* at most one response, and exactly one once its storage, engine or fetch operation
\* has settled.
C8_OneResponse ==
  \A i \in Ids :
    req[i].action \in {"getProxyStatus", "toggleProxy", "checkServerStatus"}
      => /\ Len(req[i].resp) <= 1
         /\ req[i].pc \notin {"set", "engine", "get", "fetch"} => Len(req[i].resp) = 1

----------------------------------------------------------------------------
(* C9: storage failures are reported *)

\* C9 as claimed: a toggle whose storage write failed is not answered
\* {success: true}.
C9_StorageFailureReported ==
  \A i \in Toggles :
    (req[i].pc = "done" /\ req[i].writes = 0) => ~req[i].resp[1].success

----------------------------------------------------------------------------
(* C10: the controller stays usable after a failure *)

\* toggle i is waiting for exactly one pending operation of a platform queue
Answerable(i) ==
  \/ /\ req[i].pc = "set"
     /\ Cardinality({k \in 1..Len(storageQ) :
                       storageQ[k].by = "toggle" /\ storageQ[k].id = i}) = 1
  \/ /\ req[i].pc = "engine"
     /\ Cardinality({k \in 1..Len(engineQ) :
                       engineQ[k].by = "toggle" /\ engineQ[k].id = i}) = 1

\* some toggle before i was answered with a failure
FailedBefore(i) == \E j \in Toggles : j < i /\ req[j].thrown # ""

\* the response to toggle i when its engine call resolved
AnsweredWell(i) ==
  (i \in Ids /\ Answers(i) /\ req'[i].thrown = "")
    => /\ req'[i].resp = <<[success |-> TRUE, enabled |-> req[i].enabled]>>
       /\ badgeText' # "ERR"

\* what a step does to the toggles that follow a failed one
UsableStep ==
  \A i \in Toggles' :
    FailedBefore(i)' =>
      /\ req'[i].pc # "done" => Answerable(i)'
      /\ AnsweredWell(i)

\* C10: a toggle request that follows a failed one is taken up like any other (it
\* waits for one pending operation of the platform, never for the failed request),
\* and when its engine call succeeds it is answered {success: true, enabled:
\* requested} and the badge text is no longer "ERR".
C10_UsableAfterFailure == [][UsableStep]_vars

\* C10, the part about time, under FairSpec: no toggle request waits forever (each
\* is answered, or its process ends), whatever failed before.
C10_NoToggleWaitsForever == []<>(\A i \in Ids : ~InFlight(i))

C10_Witness ==
  \E i \in Toggles :
    /\ FailedBefore(i)
    /\ req[i].resp = <<[success |-> TRUE, enabled |-> req[i].enabled]>>
    /\ badgeText # "ERR"

----------------------------------------------------------------------------
(* C11: the health probe classifies and never throws *)

Probes == {i \in Ids : req[i].action = "checkServerStatus"}

\* C11: a checkServerStatus request never ends in an error: once its fetch has
\* settled it has exactly one response, and that response has online = true exactly
\* when the fetch returned an HTTP status of 200..299; every other status and every
\* rejected fetch gives online = false.  The popup shows 'online' or 'offline'
\* accordingly.
C11_ProbeClassifies ==
  \A i \in Probes :
    /\ req[i].pc \in {"fetch", "done"}
    /\ req[i].pc = "fetch" => req[i].resp = <<>>
    /\ req[i].pc = "done" =>
         /\ Len(req[i].resp) = 1
         /\ LET r == req[i].resp[1]
                twoxx == "status" \in DOMAIN r /\ r.status \in 200..299
            IN /\ r.online = twoxx
               /\ req[i].cb => popup.serverStatus = (IF twoxx THEN "online" ELSE "offline")

C11_Witness ==
  \E i \in Probes :
    /\ req[i].pc = "done"
    /\ req[i].resp[1] = [online |-> TRUE, status |-> 299]
    /\ popup.serverStatus = "online"

----------------------------------------------------------------------------
(* C12: the health probe is bounded *)

\* C12 as claimed, under FairSpec (the platform settles its own operations; whether
\* the liveness endpoint ever answers is not in the hands of the controller): a
\* started probe is always answered in the end (unless its process ends first), so
\* the popup does not show 'unknown' forever.
C12_ProbeBounded ==
  (\E i \in Probes : req[i].pc = "fetch" /\ popup.serverStatus = "unknown")
    ~> /\ \A i \in Probes : req[i].pc = "done"
       /\ popup.open => popup.serverStatus # "unknown"

----------------------------------------------------------------------------
(* C13: queries have no side effects *)

QueryActions == {"getProxyStatus", "checkServerStatus"}

\* this step takes up a getProxyStatus or checkServerStatus request or carries its
\* handler forward
QueryStep ==
  /\ SameProcess
  /\ \E i \in 1..Len(req') :
       /\ req'[i].action \in QueryActions
       /\ (i > Len(req) \/ req'[i] # req[i])

\* C13: a step of a getProxyStatus or checkServerStatus handler leaves the persisted
\* flag, the rule set status, the badge text and the badge colour as they were, and
\* a response to getProxyStatus is {enabled: e} with e the persisted flag, false when
\* it was never written.
C13_QueriesPure ==
  [][QueryStep =>
       /\ storage' = storage
       /\ engine' = engine
       /\ badgeText' = badgeText
       /\ badgeColor' = badgeColor
       /\ \A i \in Ids :
            (req[i].action = "getProxyStatus" /\ Answers(i))
              => req'[i].resp =
                   <<[enabled |-> IF storage = <<>> THEN FALSE ELSE storage[1]]>>]_vars

C13_Witness ==
  /\ \E i \in Ids : /\ req[i].action = "getProxyStatus"
                     /\ req[i].resp = <<[enabled |-> TRUE]>>
  /\ \E i \in Probes : req[i].pc = "done"
  /\ storage = <<TRUE>>
  /\ engine
  /\ badgeText = "ON"

----------------------------------------------------------------------------
(* C14: only a toggle writes the StateStore *)

\* this step is the settling of the storage write of a toggleProxy request
ToggleWriteStep == HeadIs("set", "toggle") /\ SameProcess /\ storageQ' = Tail(storageQ)

\* C14 as claimed: once the first install has written proxyEnabled, the persisted
\* flag changes only in the step that completes the write of a toggleProxy request.
C14_OnlyToggleWrites ==
  [][(storage # <<>> /\ storage' # storage) => ToggleWriteStep]_vars

----------------------------------------------------------------------------
(* C15: idempotent re-toggle *)

\* the write of toggle i landed and changed nothing: the persisted flag was already
\* at the requested value when the request was handled
FoundFlagSet(i) == req[i].writes = 1 /\ req[i].lcalls = 0

\* C15 as claimed: when toggleProxy{enabled: v} is handled while the persisted flag
\* already equals v and its engine call succeeds, the rule engine was invoked for v,
\* and the call changes nothing: the step that completes it (engine call settled,
\* badge set, response sent, popup updated) leaves the persisted flag at v and the
\* rule set status, the badge text and the state the popup displays as they were.
C15_IdempotentRetoggle ==
  [][\A i \in Toggles :
       (Answers(i) /\ FoundFlagSet(i) /\ req'[i].thrown = "")
         => /\ req[i].calls = 1
            /\ storage' = <<req[i].enabled>>
            /\ engine' = engine
            /\ badgeText' = badgeText
            /\ popup'.isEnabled = popup.isEnabled]_vars

----------------------------------------------------------------------------
(* C16: the UI timeout abandons the exchange *)

\* the popup's timer of toggle i has fired and the response is still to come
TimedOut(i) == IsToggle(i) /\ req[i].cb /\ req[i].pc # "done" /\ i \notin timers

\* C16 as claimed: the timeout ends the popup's waiting (isLoading false) and leaves
\* the displayed state as it was, and a response that arrives after the timeout does
\* not change the displayed enabled state.
C16_TimeoutAbandons ==
  [][/\ \A i \in Toggles :
          (SameProcess /\ i \in timers /\ i \notin timers' /\ req'[i].pc # "done")
            => ~popup'.isLoading /\ popup'.isEnabled = popup.isEnabled
     /\ \A i \in Toggles :
          (TimedOut(i) /\ Answers(i)) => popup'.isEnabled = popup.isEnabled]_vars

----------------------------------------------------------------------------
(* C17: the badge is a projection (I3) *)

\* the transition status of the controller: Transitioning exactly while a toggle
\* request is in flight
TransitionState ==
  IF \E i \in Ids : InFlight(i) THEN "Transitioning" ELSE "Idle"

\* C17 as claimed, in the form of its steps: while the badge text is a function of
\* the persisted flag and the transition status, no step changes the badge text and
\* leaves both of them as they were.
C17_BadgeProjection ==
  [][(storage' = storage /\ TransitionState' = TransitionState)
       => badgeText' = badgeText]_vars

----------------------------------------------------------------------------
(* C18: the popup mirrors the persisted intent *)

\* the popup has loaded and each of its toggle requests was answered or timed out
PopupSettled ==
  /\ popup.open
  /\ ~popup.isLoading
  /\ ~\E k \in 1..Len(storageQ) : storageQ[k].by = "popup"
  /\ \A i \in Toggles : req[i].cb => (req[i].pc = "done" \/ i \notin timers)

\* C18 as claimed: whenever the popup has finished loading and none of its toggle
\* requests is outstanding, the enabled state it displays is the persisted flag.
C18_PopupMirrorsFlag ==
  PopupSettled => popup.isEnabled = (storage = <<TRUE>>)

----------------------------------------------------------------------------
(* C19: the order of a toggle's steps *)

\* the pending storage writes and rule engine calls that stem from toggle i
WritesOf(i) == {k \in 1..Len(storageQ) : storageQ[k].by = "toggle" /\ storageQ[k].id = i}
CallsOf(i) == {k \in 1..Len(engineQ) : engineQ[k].id = i}
OwnCallsOf(i) == {k \in CallsOf(i) : engineQ[k].by = "toggle"}

\* where toggle i stands: its write pending and nothing else begun; or its write
\* settled, its handler's engine call pending and no response yet; or answered,
\* with the handler's engine call settled
ToggleInOrder(i) ==
  \/ /\ req[i].pc = "set"
     /\ Cardinality(WritesOf(i)) = 1
     /\ CallsOf(i) = {}
     /\ req[i].calls = 0 /\ req[i].lcalls = 0
     /\ req[i].resp = <<>>
  \/ /\ req[i].pc = "engine"
     /\ WritesOf(i) = {}
     /\ Cardinality(OwnCallsOf(i)) = 1
     /\ req[i].calls = 1
     /\ req[i].resp = <<>>
  \/ /\ req[i].pc = "done"
     /\ WritesOf(i) = {}
     /\ OwnCallsOf(i) = {}
     /\ req[i].calls = 1
     /\ Len(req[i].resp) = 1

\* the step that sends the response to toggle i is the settling of its handler's
\* engine call, and the badge is set from that call's outcome in the same step
AnsweredAtSettle(i) ==
  Answers(i) =>
    /\ EngineStep
    /\ Head(engineQ) = updateEnabledRulesets(req[i].enabled, "toggle", i)
    /\ badgeText' = (IF req'[i].thrown # "" THEN "ERR" ELSE BadgeFor(req[i].enabled))

\* C19: for every toggleProxy request the storage write settles first, then the rule
\* engine is invoked, then the badge is set and the response is sent: no engine call
\* for a request is issued while its write is pending, and no response is sent
\* before the handler's engine call has settled.
C19_ToggleOrder ==
  [][\A i \in Toggles' :
       /\ ToggleInOrder(i)'
       /\ i \in Ids => AnsweredAtSettle(i)]_vars

C19_Witness ==
  \E i \in Toggles :
    /\ req[i].pc = "done"
    /\ req[i].writes = 1
    /\ req[i].lcalls = 1
    /\ CallsOf(i) # {}
    /\ req[i].resp = <<[success |-> TRUE, enabled |-> req[i].enabled]>>

----------------------------------------------------------------------------
(* C20: no automatic retry *)

\* C20 as claimed: one toggleProxy request causes at most one invocation of the
\* rule engine, counting the calls made for it by its handler and by the
\* storage.onChanged listener, so after a failed invocation none follows unless a
\* new request or a process start comes.
C20_OneInvocation ==
  \A i \in Toggles : req[i].calls + req[i].lcalls <= 1

----------------------------------------------------------------------------
(* C21: health gates toggling *)

\* this step delivers a new toggleProxy message of the popup
SendsToggle ==
  /\ SameProcess
  /\ Len(req') = Len(req) + 1
  /\ req'[Len(req')].action = "toggleProxy"

\* C21 as claimed: a toggleProxy message is sent only from a state in which the
\* popup's serverStatus is not 'offline' and isLoading is false, and whenever the
\* last health classification is Offline or a toggle of the popup is waiting for
\* its response or its timeout, the toggle controls are disabled, so that no user
\* action produces a toggleProxy message.
C21_HealthGatesToggling ==
  [][/\ SendsToggle => (popup.serverStatus # "offline" /\ ~popup.isLoading)
     /\ (popup'.serverStatus = "offline" \/ timers' # {}) => ~ControlsEnabled(popup)']_vars

----------------------------------------------------------------------------
(* C22: unrecognized actions *)

KnownActions == {"getProxyStatus", "toggleProxy", "checkServerStatus"}

\* C22 as claimed: a message whose action is none of getProxyStatus, toggleProxy and
\* checkServerStatus is answered with an explicit rejection, and taking it up
\* changes neither the persisted flag nor the rule set status nor the badge.
C22_UnknownRejected ==
  [][\A i \in 1..Len(req') :
       (SameProcess /\ i > Len(req) /\ req'[i].action \notin KnownActions)
         => /\ Len(req'[i].resp) = 1
            /\ storage' = storage
            /\ engine' = engine
            /\ badgeText' = badgeText
            /\ badgeColor' = badgeColor]_vars

----------------------------------------------------------------------------
(* C23: the storage.onChanged listener mirrors every change *)

\* this step is the settling of a storage write
WriteStep ==
  /\ SameProcess
  /\ storageQ # <<>>
  /\ Head(storageQ).op = "set"
  /\ storageQ' = Tail(storageQ)

\* the rule engine calls this step issues
Issued ==
  IF Len(engineQ') > Len(engineQ)
    THEN SubSeq(engineQ', Len(engineQ) + 1, Len(engineQ'))
    ELSE <<>>

IssuedBy(by) == {k \in 1..Len(Issued) : Issued[k].by = by}

\* what the settling of a write issues: the listener's call exactly when the stored
\* value changed, with the new value; for the write of a toggle request also the
\* handler's own call, so two calls for the requested value after a change and one
\* otherwise
MirroredWrite ==
  LET w == Head(storageQ)
      changed == storage' # storage
  IN /\ Cardinality(IssuedBy("listener")) = (IF changed THEN 1 ELSE 0)
     /\ \A k \in IssuedBy("listener") :
          Issued[k].enabled = storage'[1] /\ Issued[k].id = w.id
     /\ Cardinality(IssuedBy("toggle")) = (IF w.by = "toggle" THEN 1 ELSE 0)
     /\ w.by = "toggle" =>
          /\ \A k \in 1..Len(Issued) :
               Issued[k].enabled = w.val /\ Issued[k].id = w.id
          /\ Len(Issued) = (IF changed THEN 2 ELSE 1)
          /\ req'[w.id].calls + req'[w.id].lcalls = Len(Issued)
     /\ w.by # "toggle" => Len(Issued) = Cardinality(IssuedBy("listener"))

\* C23: every change of the persisted proxyEnabled, made by a toggle or by the
\* install handler, makes the listener invoke updateProxyRules with the new value,
\* next to the toggle handler's own call: a toggleProxy request that changes the flag
\* gets exactly two rule engine invocations for the requested value, one that leaves
\* it unchanged exactly one, and no other step issues a call of the listener or of
\* a toggle handler.
C23_ListenerMirrors ==
  [][/\ WriteStep => MirroredWrite
     /\ ~WriteStep => (IssuedBy("listener") = {} /\ IssuedBy("toggle") = {})
     /\ \A i \in Toggles :
          (SameProcess /\ req[i].pc # "set")
            => (req'[i].calls = req[i].calls /\ req'[i].lcalls = req[i].lcalls)]_vars

C23_Witness ==
  \E i, j \in Toggles :
    /\ req[i].pc = "done" /\ req[i].calls = 1 /\ req[i].lcalls = 1
    /\ req[j].pc = "done" /\ req[j].calls = 1 /\ req[j].lcalls = 0 /\ req[j].writes = 1
    /\ engineQ = <<>>

====
